---------------------------- MODULE Spec2Model ----------------------------
(***************************************************************************)
(* A model of codehash (src/src/codehash/__init__.py): the identity of a   *)
(* function computed from its normalised syntax tree and the hashes of the *)
(* values its code reads, with the process-wide cache of identities.       *)
(*                                                                         *)
(* Texts (Python str) are sequences of tokens; the digest of a text is the *)
(* text wrapped in a sha1 bracket, so that distinct texts have distinct    *)
(* digests (sha1 collisions are outside the model).                        *)
(***************************************************************************)
EXTENDS Integers, Sequences, FiniteSets, TLC

VARIABLES
    prog,      \* the program under analysis: per function its code unit, closure cells and source
    heap,      \* the content of the shared mutable container d, i.e. d == {'a': heap}
    cache,     \* _cache: function object -> identity
    stack,     \* per thread, the active hash_function frames, outermost first
    ret,       \* per thread, the outcome of its latest top-level hash_function call
    prev,      \* the outcome of the top-level call completed before the latest one
    obj,       \* serializer: the value handed to repr_hashable
    other,     \* serializer: the same value with dict entries inserted in another order
    rendered,  \* serializer: the texts repr_hashable produced for obj and other
    cv         \* resolver: what getclosurevars returned for function f of prog

vars == <<prog, heap, cache, stack, ret, prev, obj, other, rendered, cv>>

-----------------------------------------------------------------------------
(* Bounds of the model.                                                    *)

MaxLen == 2          \* longest list / tuple / dict drawn for the serializer
MaxNames == 2        \* most names in the co_names of the code unit of f
RecursionLimit == 3  \* most nested hash_function frames before RecursionError
MaxHeap == 2         \* the container d holds a value in 1..MaxHeap

-----------------------------------------------------------------------------
(* Sequence helpers.                                                       *)

Range(s) == {s[i] : i \in 1..Len(s)}

IsPrefix(p, s) == Len(p) <= Len(s) /\ \A i \in 1..Len(p) : p[i] = s[i]

RECURSIVE Join(_, _)
\* sep.join(parts) for texts: the parts in order with sep between them
Join(parts, sep) ==
    IF parts = <<>> THEN <<>>
    ELSE IF Len(parts) = 1 THEN parts[1]
    ELSE parts[1] \o sep \o Join(Tail(parts), sep)

-----------------------------------------------------------------------------
(* Values, as deep_transform sees them.                                    *)

VNone == [t |-> "none", n |-> 0, s |-> <<>>, keys |-> <<>>, items |-> <<>>]
VInt(n) == [t |-> "int", n |-> n, s |-> <<>>, keys |-> <<>>, items |-> <<>>]
VStr(s) == [t |-> "str", n |-> 0, s |-> s, keys |-> <<>>, items |-> <<>>]
VList(items) == [t |-> "list", n |-> 0, s |-> <<>>, keys |-> <<>>, items |-> items]
VTuple(items) == [t |-> "tuple", n |-> 0, s |-> <<>>, keys |-> <<>>, items |-> items]
\* a dict: keys in insertion order, items[i] the value of keys[i]
VDict(keys, items) == [t |-> "dict", n |-> 0, s |-> <<>>, keys |-> keys, items |-> items]
\* any other object, named by its identity
VObj(id) == [t |-> "object", n |-> 0, s |-> <<id>>, keys |-> <<>>, items |-> <<>>]
\* an instance of class Hashed
VHashed(hashid) == [t |-> "Hashed", n |-> 0, s |-> hashid, keys |-> <<>>, items |-> <<>>]
\* the CodehashError raised by transform, in place of a value
VError(id) == [t |-> "CodehashError", n |-> 0, s |-> <<id>>, keys |-> <<>>, items |-> <<>>]

IsError(v) == v.t = "CodehashError"

\* the order of str under <, for the strings used as dict keys
KeyOrder ==
    <<"C", "a", "ast_code", "b", "c", "d", "f", "g", "globals", "hash_text", "int", "m",
      "os", "pkgfn", "x">>

KeyRank(k) == CHOOSE i \in 1..Len(KeyOrder) : KeyOrder[i] = k

RECURSIVE Insert(_, _)
Insert(k, s) ==
    IF s = <<>> THEN <<k>>
    ELSE IF KeyRank(k) <= KeyRank(s[1]) THEN <<k>> \o s
    ELSE <<s[1]>> \o Insert(k, Tail(s))

\* the keys of a dict as iterated, in insertion order: what sorted(obj) is not
insertion_order(keys) == keys

RECURSIVE sorted(_)
\* sorted(obj) of a dict: its keys in increasing order
sorted(keys) == IF keys = <<>> THEN <<>> ELSE Insert(keys[1], sorted(Tail(keys)))

\* obj[k] of a dict
DictGet(d, k) == d.items[CHOOSE i \in 1..Len(d.keys) : d.keys[i] = k]

\* objects exposing __codehash__, and the token it returns
CodehashOf == [m |-> <<"mtok">>]

hasattr_codehash(id) == id \in DOMAIN CodehashOf

\* the hooks a caller may pass: None, or one that returns a token for every object
Hooks == {"none", "hook"}

\* hook(o): [some |-> FALSE] is None
HookCall(hook, id) ==
    IF hook = "none" THEN [some |-> FALSE, tok |-> <<>>]
    ELSE [some |-> TRUE, tok |-> <<"tok">>]

\* transform of repr_hashable, the closure over hook
transform(id, hook) ==
    LET hashid == IF hasattr_codehash(id)
                  THEN [some |-> TRUE, tok |-> CodehashOf[id]]
                  ELSE HookCall(hook, id)
    IN  IF ~hashid.some THEN VError(id) ELSE VHashed(hashid.tok)

\* the first error among transformed items, if any
FirstError(items) ==
    LET bad == {i \in 1..Len(items) : IsError(items[i])}
    IN  items[CHOOSE i \in bad : \A j \in bad : i <= j]

AnyError(items) == \E i \in 1..Len(items) : IsError(items[i])

RECURSIVE deep_transform(_, _)
deep_transform(o, hook) ==
    IF o.t \in {"none", "str", "int"} THEN o
    ELSE IF o.t \in {"list", "tuple"} THEN
        LET items == [i \in 1..Len(o.items) |-> deep_transform(o.items[i], hook)]
        IN  IF AnyError(items) THEN FirstError(items) ELSE [o EXCEPT !.items = items]
    ELSE IF o.t = "dict" THEN
        LET keys == sorted(o.keys)
            items == [i \in 1..Len(keys) |-> deep_transform(DictGet(o, keys[i]), hook)]
        IN  IF AnyError(items) THEN FirstError(items) ELSE VDict(keys, items)
    ELSE transform(o.s[1], hook)

\* repr of a str
ReprStr(s) == <<"'">> \o s \o <<"'">>

RECURSIVE repr(_)
\* repr of a transformed value
repr(o) ==
    CASE o.t = "none" -> <<"None">>
      [] o.t = "int" -> <<ToString(o.n)>>
      [] o.t = "str" -> ReprStr(o.s)
      [] o.t = "list" ->
            <<"[">> \o Join([i \in 1..Len(o.items) |-> repr(o.items[i])], <<", ">>) \o <<"]">>
      [] o.t = "tuple" ->
            IF Len(o.items) = 1 THEN <<"(">> \o repr(o.items[1]) \o <<",)">>
            ELSE <<"(">> \o Join([i \in 1..Len(o.items) |-> repr(o.items[i])], <<", ">>) \o <<")">>
      [] o.t = "dict" ->
            <<"{">> \o Join([i \in 1..Len(o.keys) |->
                                ReprStr(<<o.keys[i]>>) \o <<": ">> \o repr(o.items[i])],
                            <<", ">>) \o <<"}">>
      [] o.t = "Hashed" -> <<"Hashed(">> \o ReprStr(o.s) \o <<")">>

\* repr_hashable: the text, or the CodehashError naming the unknown object
repr_hashable(o, hook) ==
    LET d == deep_transform(o, hook)
    IN  IF IsError(d) THEN [ok |-> FALSE, text |-> d.s] ELSE [ok |-> TRUE, text |-> repr(d)]

hash_text(text) == <<"sha1<">> \o text \o <<">">>

-----------------------------------------------------------------------------
(* Structural Code Normalizer: ast_code_of and remove_docstring.           *)

\* syntax tree nodes: the node type, its identifier or string, its number (of a
\* FunctionDef: how many decorators it carries), its children
Node(type, name, n, body) == [type |-> type, name |-> name, n |-> n, body |-> body]
Str(s) == Node("Str", s, 0, <<>>)
Num(n) == Node("Num", "", n, <<>>)
Expr(value) == Node("Expr", "", 0, <<value>>)
Return(value) == Node("Return", "", 0, <<value>>)
FunctionDef(name, body) == Node("FunctionDef", name, 0, body)
ClassDef(name, body) == Node("ClassDef", name, 0, body)
Module(body) == Node("Module", "", 0, body)

\* node.body.pop(0) when the body starts with a string-literal expression statement
remove_docstring(node) ==
    IF node.type \notin {"AsyncFunctionDef", "FunctionDef", "ClassDef", "Module"} THEN node
    ELSE IF ~(node.body # <<>> /\ node.body[1].type = "Expr") THEN node
    ELSE IF node.body[1].body[1].type = "Str" THEN [node EXCEPT !.body = Tail(node.body)]
    ELSE node

RECURSIVE walk_remove_docstring(_)
\* for node in ast.walk(module): remove_docstring(node)
walk_remove_docstring(node) ==
    LET stripped == remove_docstring(node)
    IN  [stripped EXCEPT !.body =
            [i \in 1..Len(stripped.body) |-> walk_remove_docstring(stripped.body[i])]]

RECURSIVE dump(_)
\* ast.dump(node, annotate_fields=False): types and field values by position
dump(node) ==
    <<node.type, "(">> \o ReprStr(<<node.name>>) \o <<", ", ToString(node.n), ", [">>
        \o Join([i \in 1..Len(node.body) |-> dump(node.body[i])], <<", ">>) \o <<"])">>

RECURSIVE dropwhile(_)
\* dropwhile(lambda l: l[0] == '@', lines); a line is <<first character, rest>>
dropwhile(lines) ==
    IF lines # <<>> /\ lines[1][1] = "@" THEN dropwhile(Tail(lines)) ELSE lines

\* ast.parse of the lines left: the definition the last line stands for, with the
\* decorators still written above it
parse(lines, tree) ==
    Module(<<[tree EXCEPT !.n = Len(lines) - 1]>>)

\* src is inspect.getsource(func): the lines, the last of them the def whose tree is src.tree
ast_code_of(src) ==
    LET lines == dropwhile(src.lines)
        module == walk_remove_docstring(parse(lines, src.tree))
        func_node == [module.body[1] EXCEPT !.name = ""]
    IN  dump(func_node)

-----------------------------------------------------------------------------
(* The runtime the functions live in.                                      *)

Funcs == {"f", "g"}

\* the module the functions under analysis are defined in
TestModule == <<"tests", "test_hashing">>

\* every object a name can be bound to: its kind and, for modules, classes and
\* functions, the dotted module name and qualified name
Objects ==
    [f |-> [kind |-> "function", module |-> TestModule, qualname |-> "f"],
     g |-> [kind |-> "function", module |-> TestModule, qualname |-> "g"],
     C |-> [kind |-> "class", module |-> TestModule, qualname |-> "C"],
     os |-> [kind |-> "module", module |-> <<"os">>, qualname |-> ""],
     hash_text |-> [kind |-> "function", module |-> <<"codehash">>, qualname |-> "hash_text"],
     pkgfn |-> [kind |-> "function", module |-> <<"pkg", "sub">>, qualname |-> "pkgfn"],
     d |-> [kind |-> "dict", module |-> <<>>, qualname |-> ""],
     c |-> [kind |-> "object", module |-> <<>>, qualname |-> ""],
     m |-> [kind |-> "object", module |-> <<>>, qualname |-> ""],
     int |-> [kind |-> "class", module |-> <<"builtins">>, qualname |-> "int"]]

\* func.__globals__ of the test module: name -> object
global_ns ==
    [f |-> "f", g |-> "g", C |-> "C", os |-> "os", hash_text |-> "hash_text",
     pkgfn |-> "pkgfn", d |-> "d", c |-> "c", m |-> "m"]

\* global_ns['__builtins__']
builtin_ns == [int |-> "int"]

\* sys.modules: dotted name -> __file__ (as path components) and __version__ ("" when absent)
sys_modules ==
    (<<"os">> :> [file |-> <<"usr", "lib", "python3", "os.py">>, version |-> <<>>])
    @@ (<<"codehash">> :> [file |-> <<"site", "codehash", "__init__.py">>, version |-> <<"0.1.0">>])
    @@ (<<"pkg">> :> [file |-> <<"site", "pkg", "__init__.py">>, version |-> <<"1.0">>])
    @@ (<<"pkg", "sub">> :> [file |-> <<"site", "pkg", "sub.py">>, version |-> <<>>])
    @@ (<<"tests">> :> [file |-> <<"home", "tests", "__init__.py">>, version |-> <<>>])
    @@ (TestModule :> [file |-> <<"home", "tests", "test_hashing.py">>, version |-> <<>>])

\* the directories of os and ast
STDLIB_PATHS == <<<<"usr", "lib", "python3">>, <<"usr", "lib", "python3">>>>

is_stdlib(mod) == \E i \in 1..Len(STDLIB_PATHS) : IsPrefix(STDLIB_PATHS[i], sys_modules[mod].file)

RECURSIVE version_walk(_, _)
version_walk(parts, n) ==
    IF n = 0 THEN <<>>
    ELSE LET version == sys_modules[SubSeq(parts, 1, n)].version
         IN  IF version # <<>> THEN version ELSE version_walk(parts, n - 1)

\* the first non-empty __version__ from the module up through its parent packages; <<>> is None
version_of(mod) == version_walk(mod, Len(mod))

\* obj.__name__ of a module, as text
module_name(mod) == Join([i \in 1..Len(mod) |-> <<mod[i]>>], <<".">>)

fullname_of(o) == module_name(Objects[o].module) \o <<":", Objects[o].qualname>>

\* the value of a non-module, non-class, non-function object, as deep_transform sees it
ValueOf(o, h) ==
    IF Objects[o].kind = "dict" THEN VDict(<<"a">>, <<VInt(h)>>) ELSE VObj(o)

-----------------------------------------------------------------------------
(* Closure & Global Resolver: getclosurevars.                              *)

\* a compiled code unit: the names it reads, its free variables, the nested code units
\* among its constants
Code(names, freevars, consts) ==
    [co_names |-> names, co_freevars |-> freevars, co_consts |-> consts]

\* an insertion-ordered dict of name -> object, as a sequence of pairs
DictHas(dct, k) == \E i \in 1..Len(dct) : dct[i][1] = k

\* dct[k] = v: replaces the value in place, or appends a new entry
DictSet(dct, k, v) ==
    IF DictHas(dct, k)
    THEN [i \in 1..Len(dct) |-> IF dct[i][1] = k THEN <<k, v>> ELSE dct[i]]
    ELSE Append(dct, <<k, v>>)

DictKeys(dct) == {dct[i][1] : i \in 1..Len(dct)}

RECURSIVE zip(_, _)
zip(a, b) ==
    IF a = <<>> \/ b = <<>> THEN <<>>
    ELSE DictSet(zip(SubSeq(a, 1, Len(a) - 1), SubSeq(b, 1, Len(b) - 1)),
                 a[Len(a)], b[Len(b)])

\* one name of co_names: the module global, else the builtin, else unbound
resolve_name(name, acc) ==
    IF name \in DOMAIN global_ns
    THEN [acc EXCEPT !.globals = DictSet(@, name, global_ns[name])]
    ELSE IF name \in DOMAIN builtin_ns
    THEN [acc EXCEPT !.builtins = DictSet(@, name, builtin_ns[name])]
    ELSE [acc EXCEPT !.unbound = @ \cup {name}]

RECURSIVE resolve_names(_, _)
resolve_names(names, acc) ==
    IF names = <<>> THEN acc
    ELSE resolve_names(Tail(names), resolve_name(names[1], acc))

RECURSIVE walk_codes(_, _)
\* while codes: code = codes.pop(); nested code units are appended, names resolved
walk_codes(codes, acc) ==
    IF codes = <<>> THEN acc
    ELSE LET code == codes[Len(codes)]
             rest == SubSeq(codes, 1, Len(codes) - 1)
         IN  walk_codes(rest \o code.co_consts, resolve_names(code.co_names, acc))

\* getclosurevars(func): ClosureVars(nonlocals, globals, builtins, unbound)
getclosurevars(code, closure) ==
    walk_codes(<<code>>,
               [nonlocals |-> zip(code.co_freevars, closure),
                globals |-> <<>>, builtins |-> <<>>, unbound |-> {}])

-----------------------------------------------------------------------------
(* Dependency Classifier & Hasher: one item of the loop of hashed_globals_of. *)

\* what one (name, obj) item of hashed_globals_of(func, hook) comes to, before any
\* recursion: a token, a CodehashError, or a call of hash_function(obj)
classify(o, func, hook, h) ==
    IF Objects[o].kind \in {"class", "function", "module"} THEN
        LET mod == Objects[o].module
            fullname == IF Objects[o].kind = "module" THEN module_name(mod) ELSE fullname_of(o)
        IN  IF is_stdlib(mod) THEN [k |-> "token", tok |-> fullname \o <<"(stdlib)">>]
            ELSE IF version_of(mod) # <<>>
            THEN [k |-> "token", tok |-> fullname \o <<"(">> \o version_of(mod) \o <<")">>]
            ELSE IF Objects[o].kind = "function"
            THEN IF o = func THEN [k |-> "token", tok |-> <<"function:", "self">>]
                 ELSE [k |-> "call", tok |-> <<>>]
            ELSE [k |-> "CodehashError", tok |-> <<>>]
    ELSE
        LET r == repr_hashable(ValueOf(o, h), hook)
        IN  IF r.ok THEN [k |-> "token", tok |-> <<"composite:">> \o hash_text(r.text)]
            ELSE [k |-> "CodehashError", tok |-> <<>>]

\* hashed_globals as the dict deep_transform receives: name -> str
globals_value(hashed) ==
    VDict([i \in 1..Len(hashed) |-> hashed[i][1]], [i \in 1..Len(hashed) |-> VStr(hashed[i][2])])

\* hash_text(repr_hashable({'ast_code': ast_code, 'globals': hashed_globals}))
identity_of(ast_code, hashed) ==
    hash_text(repr_hashable(VDict(<<"ast_code", "globals">>,
                                  <<VStr(ast_code), globals_value(hashed)>>), "none").text)

\* _cache[func] = hashid, a plain store: what setdefault is not
store(c, func, hashid) == [x \in DOMAIN c \cup {func} |-> IF x = func THEN hashid ELSE c[x]]

\* _cache.setdefault(func, hashid): the cache afterwards
setdefault(c, func, hashid) == IF func \in DOMAIN c THEN c ELSE c @@ (func :> hashid)

-----------------------------------------------------------------------------
(* hash_function, step by step, for each thread.                           *)

Threads == DOMAIN stack

Idle == \A t \in Threads : stack[t] = <<>>

\* one thread only: nothing else runs while a call is in progress
Sequential == Cardinality(Threads) = 1

NoRet ==
    [kind |-> "none", func |-> "", hook |-> "", val |-> <<>>, computed |-> <<>>,
     efunc |-> "", ename |-> "", at |-> 0]

\* the outcome of the top-level call hash_function(func, hook): the identity returned
\* (val; computed is the digest this call worked out itself, <<>> on a cache hit), or
\* the exception that left it: a CodehashError names a function and one of its
\* globals (efunc, ename), an AssertionError is raised in the frame of efunc;
\* at is the content of the container d at that moment
Returned(func, hook, val, computed) ==
    [kind |-> "ok", func |-> func, hook |-> hook, val |-> val, computed |-> computed,
     efunc |-> "", ename |-> "", at |-> heap]

Raised(kind, func, hook, efunc, ename) ==
    [kind |-> kind, func |-> func, hook |-> hook, val |-> <<>>, computed |-> <<>>,
     efunc |-> efunc, ename |-> ename, at |-> heap]

\* a frame of hash_function(func, hook) inside the loop of hashed_globals_of:
\* the items still to hash, the first of them the current one, and hashed_globals so far
Frame(func, hook, items) == [func |-> func, hook |-> hook, items |-> items, hashed |-> <<>>]

\* closure_vars and the assert of hashed_globals_of (lines 77-79)
closure_vars_of(func) == getclosurevars(prog.code[func], prog.closure[func])

\* chain(closure_vars.nonlocals.items(), closure_vars.globals.items())
chain_items(closure_vars) == closure_vars.nonlocals \o closure_vars.globals

\* the top-level call of thread t ends: its outcome is recorded, its frames are gone
\* (prev keeps the outcome before it for a single-threaded program)
Complete(t, outcome) ==
    /\ stack' = [stack EXCEPT ![t] = <<>>]
    /\ prev' = IF Sequential THEN ret[t] ELSE prev
    /\ ret' = [ret EXCEPT ![t] = outcome]

\* an exception leaves the frames of thread t under a handler that catches every
\* exception, not CodehashError alone: whatever was raised ends as a CodehashError
RaiseAny(t, kind, func) ==
    LET outer == stack[t][1]
    IN  Complete(t, Raised("CodehashError", outer.func, outer.hook, outer.func,
                           outer.items[1][1]))

\* an exception leaves the frames of thread t: every enclosing hashed_globals_of
\* re-raises a CodehashError as its own, so the outermost frame names it; any other
\* exception passes through unchanged
Raise(t, kind, func) ==
    LET outer == stack[t][1]
    IN  IF kind = "CodehashError"
        THEN Complete(t, Raised(kind, outer.func, outer.hook, outer.func, outer.items[1][1]))
        ELSE Complete(t, Raised(kind, outer.func, outer.hook, func, ""))

\* the current item of the top frame of thread t has its token: next item
Advance(t, tok) ==
    LET n == Len(stack[t])
        top == stack[t][n]
    IN  stack' = [stack EXCEPT ![t][n] =
                    [top EXCEPT !.hashed = DictSet(@, top.items[1][1], tok),
                                !.items = Tail(@)]]

\* hash_function(func, hook) is called by thread t at top level (lines 34-40, 77-80)
Call(t, func, hook) ==
    /\ stack[t] = <<>>
    /\ UNCHANGED <<prog, heap, cache, obj, other, rendered, cv>>
    /\ IF func \in DOMAIN cache
       THEN Complete(t, Returned(func, hook, cache[func], <<>>))
       ELSE IF closure_vars_of(func).unbound # {}
       THEN Complete(t, Raised("AssertionError", func, hook, func, ""))
       ELSE /\ stack' = [stack EXCEPT ![t] = <<Frame(func, hook, chain_items(closure_vars_of(func)))>>]
            /\ UNCHANGED <<ret, prev>>

\* one pass of the loop of hashed_globals_of in the top frame of thread t (lines 81-105)
HashItem(t) ==
    /\ stack[t] # <<>>
    /\ LET top == stack[t][Len(stack[t])]
       IN  /\ top.items # <<>>
           /\ LET o == top.items[1][2]
                  r == classify(o, top.func, top.hook, heap)
              IN  CASE r.k = "token" -> Advance(t, r.tok) /\ UNCHANGED <<ret, prev>>
                    [] r.k = "CodehashError" -> Raise(t, "CodehashError", top.func)
                    [] r.k = "call" ->
                        \* hash_function(obj), without the hook (line 97)
                        IF o \in DOMAIN cache
                        THEN Advance(t, <<"function:">> \o cache[o]) /\ UNCHANGED <<ret, prev>>
                        ELSE IF Len(stack[t]) >= RecursionLimit
                        THEN Raise(t, "RecursionError", o)
                        ELSE IF closure_vars_of(o).unbound # {}
                        THEN Raise(t, "AssertionError", o)
                        ELSE /\ stack' = [stack EXCEPT ![t] =
                                    Append(@, Frame(o, "none", chain_items(closure_vars_of(o))))]
                             /\ UNCHANGED <<ret, prev>>
    /\ UNCHANGED <<prog, heap, cache, obj, other, rendered, cv>>

\* the loop of the top frame of thread t is over: lines 41-42, and the return to the caller
Finish(t) ==
    /\ stack[t] # <<>>
    /\ LET n == Len(stack[t])
           top == stack[t][n]
           hashid == identity_of(ast_code_of(prog.src[top.func]), top.hashed)
       IN  /\ top.items = <<>>
           /\ cache' = setdefault(cache, top.func, hashid)
           /\ IF n = 1
              THEN Complete(t, Returned(top.func, top.hook, cache'[top.func], hashid))
              ELSE LET caller == stack[t][n - 1]
                   IN  /\ stack' = [stack EXCEPT ![t] =
                              Append(SubSeq(@, 1, n - 2),
                                     [caller EXCEPT
                                        !.hashed = DictSet(@, caller.items[1][1],
                                                           <<"function:">> \o cache'[top.func]),
                                        !.items = Tail(@)])]
                       /\ UNCHANGED <<ret, prev>>
    /\ UNCHANGED <<prog, heap, obj, other, rendered, cv>>

\* the program changes the content of the container d; a single-threaded program
\* does so between calls
Mutate ==
    /\ Sequential => Idle
    /\ \E h \in 1..MaxHeap : h # heap /\ heap' = h
    /\ UNCHANGED <<prog, cache, stack, ret, prev, obj, other, rendered, cv>>

-----------------------------------------------------------------------------
(* The programs the calls are made on.                                     *)

\* the sequences of at most n distinct elements of S
RECURSIVE NameSeqs(_, _)
NameSeqs(S, n) ==
    IF n = 0 THEN {<<>>}
    ELSE LET shorter == NameSeqs(S, n - 1)
         IN  shorter \cup {Append(s, x) : s \in shorter, x \in S}

Distinct(s) == \A i, j \in 1..Len(s) : i # j => s[i] # s[j]

DistinctSeqs(S, n) == {s \in NameSeqs(S, n) : Distinct(s)}

\* the names the code of f and g reads: functions, the container d, the opaque object c,
\* the unversioned class C, a stdlib module, and x, bound nowhere
DepNames == {"f", "g", "d", "c", "C", "os", "x"}

\* inspect.getsource: decorator lines, then the def (its tree)
Source(decorators, tree) ==
    [lines |-> [i \in 1..Len(decorators) |-> <<"@", decorators[i]>>] \o <<<<"d", "ef">>>>,
     tree |-> tree]

\* def f(): return 1 / @dec def f(): """doc"""; return 1 / def f(): return 2
SourcesOf(name) ==
    {Source(<<>>, FunctionDef(name, <<Return(Num(1))>>)),
     Source(<<"dec">>, FunctionDef(name, <<Expr(Str("doc")), Return(Num(1))>>)),
     Source(<<>>, FunctionDef(name, <<Return(Num(2))>>))}

\* module-level functions f and g: f reads at most MaxNames names, g one fewer
Programs ==
    {[code |-> [f |-> Code(nf, <<>>, <<>>), g |-> Code(ng, <<>>, <<>>)],
      closure |-> [f |-> <<>>, g |-> <<>>],
      src |-> [f |-> sf, g |-> Source(<<>>, FunctionDef("g", <<Return(Num(1))>>))]] :
        nf \in DistinctSeqs(DepNames, MaxNames),
        ng \in DistinctSeqs(DepNames, MaxNames - 1),
        sf \in SourcesOf("f")}

NoValue == VNone

NoText == [ok |-> FALSE, text |-> <<>>]

NoRendered == [done |-> FALSE, hook |-> "none", a |-> NoText, b |-> NoText]

NoClosureVars ==
    [done |-> FALSE, nonlocals |-> <<>>, globals |-> <<>>, builtins |-> <<>>, unbound |-> {}]

Init ==
    /\ prog \in Programs
    /\ heap = 1
    /\ cache = <<>>
    /\ stack = [t \in {1} |-> <<>>]
    /\ ret = [t \in {1} |-> NoRet]
    /\ prev = NoRet
    /\ obj = NoValue
    /\ other = NoValue
    /\ rendered = NoRendered
    /\ cv = NoClosureVars

Next ==
    \/ \E t \in Threads, func \in Funcs, hook \in Hooks : Call(t, func, hook)
    \/ \E t \in Threads : HashItem(t)
    \/ \E t \in Threads : Finish(t)
    \/ Mutate

Spec == Init /\ [][Next]_vars

-----------------------------------------------------------------------------
(* Concurrent calls: two threads share the cache, and the container d may  *)
(* change at any moment.                                                   *)

\* f reads g and d, g reads d: every call computes an identity
ConcurrentPrograms ==
    {p \in Programs :
        /\ Range(p.code["f"].co_names) \subseteq {"g", "d"}
        /\ Range(p.code["g"].co_names) \subseteq {"d"}
        /\ p.src["f"].tree.body = p.src["g"].tree.body}

InitConcurrent ==
    /\ prog \in ConcurrentPrograms
    /\ heap = 1
    /\ cache = <<>>
    /\ stack = [t \in {1, 2} |-> <<>>]
    /\ ret = [t \in {1, 2} |-> NoRet]
    /\ prev = NoRet
    /\ obj = NoValue
    /\ other = NoValue
    /\ rendered = NoRendered
    /\ cv = NoClosureVars

\* the threads call hash_function(func) without a hook
NextConcurrent ==
    \/ \E t \in Threads, func \in Funcs : Call(t, func, "none")
    \/ \E t \in Threads : HashItem(t)
    \/ \E t \in Threads : Finish(t)
    \/ Mutate

SpecConcurrent == InitConcurrent /\ [][NextConcurrent]_vars

-----------------------------------------------------------------------------
(* The resolver on its own: getclosurevars of a function with free         *)
(* variables and a nested code unit.                                       *)

\* names a code unit may read: a global, a builtin, a name bound nowhere
ResolverNames == {"d", "c", "int", "x"}

\* the code units nested in f: none, or one (an inner def, lambda or comprehension)
NestedUnits ==
    {<<>>} \cup {<<Code(n, <<>>, <<>>)>> : n \in DistinctSeqs(ResolverNames, MaxNames - 1)}

\* the free variables of f with the contents of their cells
Closures == {<<<<>>, <<>>>>} \cup {<<<<n>>, <<o>>>> : n \in {"d", "x"}, o \in {"m", "c"}}

ResolverPrograms ==
    {[code |-> [f |-> Code(nf, cl[1], nested), g |-> Code(<<>>, <<>>, <<>>)],
      closure |-> [f |-> cl[2], g |-> <<>>],
      src |-> [f |-> sf, g |-> sf]] :
        nf \in DistinctSeqs(ResolverNames, MaxNames),
        nested \in NestedUnits,
        cl \in Closures,
        sf \in {Source(<<>>, FunctionDef("f", <<Return(Num(1))>>))}}

InitResolver ==
    /\ prog \in ResolverPrograms
    /\ heap = 1
    /\ cache = <<>>
    /\ stack = [t \in {1} |-> <<>>]
    /\ ret = [t \in {1} |-> NoRet]
    /\ prev = NoRet
    /\ obj = NoValue
    /\ other = NoValue
    /\ rendered = NoRendered
    /\ cv = NoClosureVars

\* closure_vars = getclosurevars(f)
Inspect ==
    /\ ~cv.done
    /\ LET closure_vars == closure_vars_of("f")
       IN  cv' = [done |-> TRUE, nonlocals |-> closure_vars.nonlocals,
                  globals |-> closure_vars.globals, builtins |-> closure_vars.builtins,
                  unbound |-> closure_vars.unbound]
    /\ UNCHANGED <<prog, heap, cache, stack, ret, prev, obj, other, rendered>>

SpecResolver == InitResolver /\ [][Inspect]_vars

-----------------------------------------------------------------------------
(* The serializer on its own: repr_hashable of nested values.              *)

Leaves == {VInt(1), VStr(<<"t">>), VObj("m"), VObj("c")}

\* the insertion orders of dicts with at most n of the keys "a", "b", "c"
DictKeySeqs(n) == DistinctSeqs({"a", "b", "c"}, n)

\* the sequences of n items, the first from First and the others from Rest
ItemSeqs(First, Rest, n) ==
    IF n = 0 THEN {<<>>}
    ELSE {<<x>> \o r : x \in First, r \in [1..(n - 1) -> Rest]}

\* lists, tuples and dicts of at most MaxLen items
Containers(First, Rest) ==
    UNION {{VList(items) : items \in ItemSeqs(First, Rest, n)} : n \in 0..MaxLen}
    \cup UNION {{VTuple(items) : items \in ItemSeqs(First, Rest, n)} : n \in 0..MaxLen}
    \cup UNION {{VDict(keys, items) : keys \in {k \in DictKeySeqs(n) : Len(k) = n},
                                     items \in ItemSeqs(First, Rest, n)} : n \in 0..MaxLen}

\* values nested two deep: a container whose first item may itself be a container
Values == Leaves \cup Containers(Leaves \cup Containers(Leaves, Leaves), Leaves)

InitSerializer ==
    /\ obj \in Values
    /\ other = obj
    /\ rendered = NoRendered
    /\ prog \in {p \in Programs : p.code["f"].co_names = <<>> /\ p.code["g"].co_names = <<>>
                                   /\ p.src["f"].lines = p.src["g"].lines}
    /\ heap = 1
    /\ cache = <<>>
    /\ stack = [t \in {1} |-> <<>>]
    /\ ret = [t \in {1} |-> NoRet]
    /\ prev = NoRet
    /\ cv = NoClosureVars

\* the dict v with the entries at positions i and i + 1 inserted in the opposite order
SwapEntries(v, i) ==
    [v EXCEPT !.keys = [@ EXCEPT ![i] = v.keys[i + 1], ![i + 1] = v.keys[i]],
              !.items = [@ EXCEPT ![i] = v.items[i + 1], ![i + 1] = v.items[i]]]

\* the program builds the same value again, with some dict (the value itself or its
\* first element) filled in another order
Reorder ==
    /\ ~rendered.done
    /\ \/ /\ other.t = "dict"
          /\ \E i \in 1..(Len(other.keys) - 1) : other' = SwapEntries(other, i)
       \/ /\ other.items # <<>>
          /\ other.items[1].t = "dict"
          /\ \E i \in 1..(Len(other.items[1].keys) - 1) :
                other' = [other EXCEPT !.items[1] = SwapEntries(other.items[1], i)]
    /\ UNCHANGED <<obj, rendered, prog, heap, cache, stack, ret, prev, cv>>

\* repr_hashable(obj, hook) and repr_hashable(other, hook)
Render(hook) ==
    /\ ~rendered.done
    /\ rendered' = [done |-> TRUE, hook |-> hook,
                    a |-> repr_hashable(obj, hook), b |-> repr_hashable(other, hook)]
    /\ UNCHANGED <<obj, other, prog, heap, cache, stack, ret, prev, cv>>

NextSerializer ==
    \/ Reorder
    \/ \E hook \in Hooks : Render(hook)

SpecSerializer == InitSerializer /\ [][NextSerializer]_vars

-----------------------------------------------------------------------------
(* Vocabulary of the properties.                                           *)

\* the latest outcome of the single thread of Spec
last == ret[1]

Failed(r) == r.kind \in {"CodehashError", "AssertionError", "RecursionError"}

\* the objects the code of func reads: what hashed_globals_of iterates over
DepsOf(func) == {it[2] : it \in Range(chain_items(closure_vars_of(func)))}

Unbound(func) == closure_vars_of(func).unbound

\* the functions hash_function recurses into from func
FuncDeps(func) == {o \in DepsOf(func) \cap Funcs : o # func}

RECURSIVE ReachWithin(_, _)
ReachWithin(S, n) ==
    IF n = 0 THEN S ELSE ReachWithin(S \cup UNION {FuncDeps(g) : g \in S}, n - 1)

\* func and the functions it depends on, at any depth
Reach(func) == ReachWithin({func}, Cardinality(Funcs))

\* func depends on itself, directly or through other functions
OnCycle(func) == func \in DepsOf(func) \/ \E g \in FuncDeps(func) : func \in Reach(g)

\* an object with neither __codehash__ nor a decomposable structure
Opaque(o) == Objects[o].kind = "object" /\ ~hasattr_codehash(o)

\* a class or module that is neither in the standard library nor versioned
Unversioned(o) ==
    /\ Objects[o].kind \in {"class", "module"}
    /\ ~is_stdlib(Objects[o].module)
    /\ version_of(Objects[o].module) = <<>>

RECURSIVE Unhashable(_, _, _, _)
\* o, read by caller, cannot be given a token under hook: it is opaque and the hook
\* declines it, or an unversioned class or module, or a function one of whose own
\* dependencies cannot be given a token without a hook
Unhashable(o, caller, hook, n) ==
    \/ Opaque(o) /\ hook = "none"
    \/ Unversioned(o)
    \/ /\ o \in Funcs
       /\ o # caller
       /\ n > 0
       /\ \E q \in DepsOf(o) : Unhashable(q, o, "none", n - 1)

RECURSIVE FreshCall(_, _, _, _)
RECURSIVE FreshLoop(_, _, _, _, _, _)
\* hash_function(func, hook) run to its end on the cache c, as a function of the
\* program and the heap: the outcome and the cache it leaves
FreshCall(func, hook, c, depth) ==
    IF func \in DOMAIN c THEN [kind |-> "ok", val |-> c[func], c |-> c]
    ELSE IF Unbound(func) # {} THEN [kind |-> "AssertionError", val |-> <<>>, c |-> c]
    ELSE FreshLoop(func, hook, chain_items(closure_vars_of(func)), <<>>, c, depth)

FreshLoop(func, hook, items, hashed, c, depth) ==
    IF items = <<>>
    THEN LET c2 == setdefault(c, func, identity_of(ast_code_of(prog.src[func]), hashed))
         IN  [kind |-> "ok", val |-> c2[func], c |-> c2]
    ELSE LET name == items[1][1]
             o == items[1][2]
             r == classify(o, func, hook, heap)
         IN  IF r.k = "token"
             THEN FreshLoop(func, hook, Tail(items), DictSet(hashed, name, r.tok), c, depth)
             ELSE IF r.k = "CodehashError"
             THEN [kind |-> "CodehashError", val |-> <<>>, c |-> c]
             ELSE IF o \notin DOMAIN c /\ depth >= RecursionLimit
             THEN [kind |-> "RecursionError", val |-> <<>>, c |-> c]
             ELSE LET sub == FreshCall(o, "none", c, depth + 1)
                  IN  IF sub.kind = "ok"
                      THEN FreshLoop(func, hook, Tail(items),
                                     DictSet(hashed, name, <<"function:">> \o sub.val),
                                     sub.c, depth)
                      ELSE [kind |-> sub.kind, val |-> <<>>, c |-> sub.c]

\* the outcome of hash_function(func, hook) made now with an empty cache
WithEmptyCache(func, hook) == FreshCall(func, hook, <<>>, 1)

\* the statements of a def without its leading docstring
Undocumented(tree) ==
    IF tree.body # <<>> /\ tree.body[1].type = "Expr" /\ tree.body[1].body[1].type = "Str"
    THEN Tail(tree.body) ELSE tree.body

-----------------------------------------------------------------------------
(* Properties.                                                             *)

\* C1: the cache is a pure optimisation: the outcome of every call (the identity
\* returned or the exception raised) is the outcome the same call has with an empty
\* cache. Stated of the latest call, while the container d is as the call saw it.
C1_CacheIsPureOptimisation ==
    (last.kind # "none" /\ last.at = heap) =>
        LET fresh == WithEmptyCache(last.func, last.hook)
        IN  fresh.kind = last.kind /\ fresh.val = last.val

\* C2: when f reads the container d and the content of d changed between two
\* identity computations of f, the two identities returned differ.
C2_MutationChangesIdentity ==
    (/\ prev.kind = "ok"
     /\ last.kind = "ok"
     /\ prev.func = last.func
     /\ "d" \in DepsOf(last.func)
     /\ prev.at # last.at) => prev.val # last.val

\* C3: hash_function(f) terminates with bounded recursion for every f that depends
\* on itself, directly or through other functions: the call never runs into the
\* recursion limit.
C3_CyclesTerminate ==
    (last.kind # "none" /\ OnCycle(last.func)) => last.kind # "RecursionError"

\* C4: when the caller's hook returns a token for every opaque value, whether f
\* itself or a function f depends on at any depth reads the value, and nothing else
\* in the dependencies of f is unhashable, the call raises no CodehashError.
C4_HookCoversEveryDepth ==
    (/\ last.kind # "none"
     /\ last.hook = "hook"
     /\ \A g \in Reach(last.func) : \A o \in DepsOf(g) : ~Unversioned(o))
        => last.kind # "CodehashError"

C6_CollectionsDisjoint ==
    cv.done =>
        LET n == DictKeys(cv.nonlocals)
            g == DictKeys(cv.globals)
            b == DictKeys(cv.builtins)
            u == cv.unbound
        IN  /\ n \cap g = {} /\ n \cap b = {} /\ n \cap u = {}
            /\ g \cap b = {} /\ g \cap u = {} /\ b \cap u = {}

\* C7: two functions with the same statements and dependency values that differ
\* only by a leading docstring and their own names get the same identity, and two
\* whose statements differ in a literal get different identities. Stated of two
\* calls made one after the other with the container d unchanged.
C7_DocstringInsensitive ==
    (/\ prev.kind = "ok"
     /\ last.kind = "ok"
     /\ prev.func # last.func
     /\ prev.at = last.at
     /\ prog.code[prev.func] = prog.code[last.func]
     /\ prog.closure[prev.func] = prog.closure[last.func]) =>
        LET a == Undocumented(prog.src[prev.func].tree)
            b == Undocumented(prog.src[last.func].tree)
        IN  /\ a = b => prev.val = last.val
            /\ a # b => prev.val # last.val

\* the value as the dict hashed_globals, when it is a dict of str
IsStrDict(v) == v.t = "dict" /\ \A i \in 1..Len(v.items) : v.items[i].t = "str"

HashedOf(v) == [i \in 1..Len(v.keys) |-> <<v.keys[i], v.items[i].s>>]

\* C8: mapping order never affects the result: repr_hashable renders two values that
\* differ only in the insertion order of their dicts, at any depth, identically (or
\* fails on both), and the identity computed from a dependency map does not depend
\* on the order the names were inserted in.
C8_InsertionOrderIrrelevant ==
    rendered.done =>
        /\ rendered.a = rendered.b
        /\ IsStrDict(obj) =>
              identity_of(<<"ast">>, HashedOf(obj)) = identity_of(<<"ast">>, HashedOf(other))

\* C8 witness: a container whose first item is a dict was rendered, with that dict
\* filled in two different orders
C8_Witness ==
    /\ rendered.done
    /\ rendered.a.ok
    /\ obj.t \in {"list", "tuple", "dict"}
    /\ obj.items # <<>>
    /\ obj.items[1].t = "dict"
    /\ obj.items[1].keys # other.items[1].keys

\* C9: under any interleaving, a cache entry is set once and never replaced, and
\* every call for a function returns the identity the cache holds for it, so all
\* calls for the same function return the same identity, also when one of them
\* computed another digest.
C9_EntriesWrittenOnce ==
    /\ [](\A t \in Threads : ret[t].kind = "ok" => cache[ret[t].func] = ret[t].val)
    /\ [][\A func \in DOMAIN cache : func \in DOMAIN cache' /\ cache'[func] = cache[func]]_vars

\* C9 witness: both threads computed a digest for the same function, the digests
\* differ, and both calls returned the same identity
C9_Witness ==
    /\ ret[1].kind = "ok"
    /\ ret[2].kind = "ok"
    /\ ret[1].func = ret[2].func
    /\ ret[1].computed # <<>>
    /\ ret[2].computed # <<>>
    /\ ret[1].computed # ret[2].computed
    /\ ret[1].val = ret[2].val

\* the latest call is a retry, with a hook, of a call that failed on an opaque value
\* its function reads directly
RetryAfterOpaqueFailure ==
    /\ prev.kind = "CodehashError"
    /\ Opaque(global_ns[prev.ename])
    /\ last.kind # "none"
    /\ last.func = prev.func
    /\ last.hook = "hook"

\* every dependency of func, at any depth, is one the algorithm gives a token when
\* the hook answers for the opaque values: no class or module without a version,
\* no unbound name, no cycle through several functions
Coverable(func) ==
    /\ ~OnCycle(func)
    /\ \A g \in Reach(func) :
          /\ Unbound(g) = {}
          /\ \A o \in DepsOf(g) : ~Unversioned(o)

\* C10: a call that raises leaves no cache entry for its function, and a retry with
\* a hook, after a classified failure on an opaque value the function reads directly,
\* recomputes and succeeds. Stated of functions whose other dependencies can all be
\* given a token.
C10_RetrySucceeds ==
    /\ Failed(last) => last.func \notin DOMAIN cache
    /\ (RetryAfterOpaqueFailure /\ Coverable(last.func)) =>
            last.kind = "ok" /\ last.computed = last.val

=============================================================================
